---- MODULE Spec2Model ----
(***************************************************************************)
(* A model of scripts/update_readme.py: the GitHub API client, the two     *)
(* activity collectors, the merge and rank step, the Markdown renderer,    *)
(* the README patcher and main.                                            *)
(*                                                                         *)
(* Text is a sequence of one-character strings, so that searching,         *)
(* splicing, case folding and the regex replacement template are computed  *)
(* character by character.  Timestamps are ISO-8601 UTC strings of one     *)
(* fixed format in the program, compared with < and >= on strings; their   *)
(* order is the order of the instants, and the model holds an instant as a *)
(* natural number (0 for a null or missing timestamp).                     *)
(***************************************************************************)
EXTENDS Integers, Sequences, FiniteSets, TLC

VARIABLES
    pc,            \* the place the run has reached
    exc,           \* the exception that ended the run ("" while none)
    wire,          \* what the last HTTP request met on the wire (its kind)
    cutoff_iso,    \* get_all_activity: cutoff_iso
    repos,         \* get_own_repos_activity: repos
    idx,           \* get_own_repos_activity: position of the for loop in repos
    commit_count,  \* get_own_repos_activity: commit_count of the current repo
    releases,      \* get_own_repos_activity: releases of the current repo
    tags,          \* get_own_repos_activity: tags of the current repo
    recent_repos,  \* get_own_repos_activity: recent_repos
    hist,          \* per finished repo: its commit count and len(recent_repos)
    result,        \* get_open_source_contributions: result
    contributions, \* get_open_source_contributions: contributions
    limit,         \* get_all_activity: limit
    all_activity,  \* get_all_activity: the list returned
    activity_md,   \* main: activity_md
    content,       \* main: content
    prev,          \* update_readme_section: content as passed to the last call
    section_name,  \* update_readme_section: section_name of the last call
    new_content,   \* update_readme_section: new_content of the last call
    applied,       \* number of update_readme_section calls made
    written        \* what main wrote to the README file

vars == <<pc, exc, wire, cutoff_iso, repos, idx, commit_count, releases,
          tags, recent_repos, hist, result, contributions, limit, all_activity,
          activity_md, content, prev, section_name, new_content, applied,
          written>>

-----------------------------------------------------------------------------
(* Bounds of the model *)

MaxTime == 3        \* the latest instant; the cutoff is the one before
MaxRepos == 2       \* repositories in a listing
MaxCommits == 1     \* commits in an answer
MaxReleases == 2    \* releases in an answer
MaxTags == 1        \* tags in an answer
MaxPrRepos == 2     \* repositories in a GraphQL answer
MaxNodes == 2       \* contribution nodes of a repository
MaxOwn == 2         \* owned-repository records given to the merge
MaxContribs == 2    \* contribution records given to the merge
MaxLimit == 3       \* limit given to the merge
MaxDocParts == 4    \* pieces (markers, other text) of a document
MaxBodyParts == 2   \* pieces of a replacement body

-----------------------------------------------------------------------------
(* Text *)

SeqsUpTo(S, n) == UNION {[1..k -> S] : k \in 0..n}

RECURSIVE Concat(_)
Concat(ss) == IF ss = <<>> THEN <<>> ELSE Head(ss) \o Concat(Tail(ss))

Min(S) == CHOOSE x \in S : \A y \in S : x <= y

IsAt(s, p, i) ==
    /\ i >= 1
    /\ i + Len(p) - 1 <= Len(s)
    /\ SubSeq(s, i, i + Len(p) - 1) = p

\* str.find, 1-based; 0 when p does not occur in s at or after position from
Find(s, p, from) ==
    LET hits == {i \in from..(Len(s) - Len(p) + 1) : IsAt(s, p, i)}
    IN  IF hits = {} THEN 0 ELSE Min(hits)

Contains(s, p) == Find(s, p, 1) # 0

Occurrences(s, p) == {i \in 1..Len(s) : IsAt(s, p, i)}

AsciiLetters == {"a", "b", "c", "d", "e", "f", "g", "h", "i", "j", "k", "l", "m", "n", "o", "p", "q", "r", "s", "t", "u", "v", "w", "x", "y", "z", "A", "B", "C", "D", "E", "F", "G", "H", "I", "J", "K", "L", "M", "N", "O", "P", "Q", "R", "S", "T", "U", "V", "W", "X", "Y", "Z"}

UpperToLower == [A |-> "a", B |-> "b", C |-> "c", D |-> "d", E |-> "e", F |-> "f", G |-> "g", H |-> "h", I |-> "i", J |-> "j", K |-> "k", L |-> "l", M |-> "m", N |-> "n", O |-> "o", P |-> "p", Q |-> "q", R |-> "r", S |-> "s", T |-> "t", U |-> "u", V |-> "v", W |-> "w", X |-> "x", Y |-> "y", Z |-> "z"]

LowerChar(c) == IF c \in DOMAIN UpperToLower THEN UpperToLower[c] ELSE c

\* str.lower
Lower(s) == [i \in 1..Len(s) |-> LowerChar(s[i])]

GITHUB_USERNAME == <<"j", "i", "m", "y", "a", "g">>

ACTIVITY == <<"A", "C", "T", "I", "V", "I", "T", "Y">>
UPDATED == <<"U", "P", "D", "A", "T", "E", "D">>
NL == <<"\n">>

-----------------------------------------------------------------------------
(* The API client *)

\* What one HTTP request can meet: a 2xx response whose JSON body is read and
\* decoded ("ok"), a response with another status (urlopen raises HTTPError),
\* a failure to resolve or connect, or a connect timeout (urlopen raises
\* URLError), or a socket timeout while the status line, the headers or the
\* body are read (TimeoutError, an OSError that is not a URLError).
Failures == {[kind |-> "HTTPError"], [kind |-> "URLError"], [kind |-> "TimeoutError"]}

WireOutcomes(bodies) == {[kind |-> "ok", body |-> b] : b \in bodies} \cup Failures

\* A value returned by the client: None, or the decoded JSON.
PyNone == [none |-> TRUE, json |-> <<>>]
Json(v) == [none |-> FALSE, json |-> v]

\* Python's truth test of such a value: None, [] and {} are false.
Truthy(r) == ~r.none /\ r.json # <<>>

\* github_api_request(url) for what the request met: the value returned, or
\* the exception that leaves the function.  The except clauses name HTTPError
\* and URLError only.
github_api_request(w) ==
    IF w.kind = "ok" THEN [raised |-> "", ret |-> Json(w.body)]
    ELSE IF w.kind \in {"HTTPError", "URLError"} THEN [raised |-> "", ret |-> PyNone]
    ELSE [raised |-> w.kind, ret |-> PyNone]

\* github_graphql_request(query), likewise.
github_graphql_request(w) ==
    IF w.kind = "ok" THEN [raised |-> "", ret |-> Json(w.body)]
    ELSE IF w.kind \in {"HTTPError", "URLError"} THEN [raised |-> "", ret |-> PyNone]
    ELSE [raised |-> w.kind, ret |-> PyNone]

-----------------------------------------------------------------------------
(* get_own_repos_activity *)

\* A missing or null timestamp, and a missing tag (None)
NoTime == 0
NoText == <<>>

\* The tests of lines 147-156 that let a listed repository through.
PassesFilter(repo, cutoff) ==
    /\ ~repo.fork
    /\ Lower(repo.name) # Lower(GITHUB_USERNAME)
    /\ ~(repo.pushed_at = NoTime \/ repo.pushed_at < cutoff)

\* len(commits) if commits else 0
CommitCount(r) == IF Truthy(r) THEN Len(r.json) ELSE 0

\* recent_releases: the releases published on or after the cutoff, in the
\* order returned.
RecentReleases(r, cutoff) ==
    IF Truthy(r)
    THEN SelectSeq(r.json, LAMBDA rel : rel.published_at # NoTime
                                         /\ rel.published_at >= cutoff)
    ELSE <<>>

\* The tag of the first release returned, recent or not.
ReleaseTag_FirstReturned(r, cutoff) ==
    IF Truthy(r)
    THEN [tag |-> r.json[1].tag_name, url |-> r.json[1].html_url]
    ELSE [tag |-> NoText, url |-> NoText]

\* latest_tag and latest_tag_url after the releases were looked at.
ReleaseTag(r, cutoff) ==
    LET recent == RecentReleases(r, cutoff)
    IN  IF recent # <<>>
        THEN [tag |-> recent[1].tag_name, url |-> recent[1].html_url]
        ELSE [tag |-> NoText, url |-> NoText]

TagPath == <<"/", "r", "e", "l", "e", "a", "s", "e", "s", "/", "t", "a", "g", "/">>

\* latest_tag and latest_tag_url after the tags were looked at (lines 186-188).
TagsTag(repo, r) ==
    IF Truthy(r) /\ Len(r.json) > 0
    THEN [tag |-> r.json[1].name, url |-> repo.html_url \o TagPath \o r.json[1].name]
    ELSE [tag |-> NoText, url |-> NoText]

\* The record appended to recent_repos (lines 190-199).
RepoRecord(repo, count, rels, cutoff, t) ==
    [type |-> "repo",
     name |-> repo.name,
     url |-> repo.html_url,
     commit_count |-> count,
     has_release |-> Len(RecentReleases(rels, cutoff)) > 0,
     latest_tag |-> t.tag,
     latest_tag_url |-> t.url,
     latest_activity |-> repo.pushed_at]

-----------------------------------------------------------------------------
(* get_open_source_contributions *)

HashLen == 30

HexDigits == {"0", "1", "2", "3", "4", "5", "6", "7", "8", "9",
              "a", "b", "c", "d", "e", "f"}

\* The test without .lower()
IsHashLike_CaseSensitive(owner) ==
    /\ Len(owner) > HashLen
    /\ \A i \in 1..Len(owner) : owner[i] \in HexDigits

\* len(owner_name) > 30 and all(c in "0123456789abcdef" for c in owner_name.lower())
IsHashLike(owner) ==
    /\ Len(owner) > HashLen
    /\ LET lowered == Lower(owner)
       IN  \A i \in 1..Len(lowered) : lowered[i] \in HexDigits

\* merged_prs: the mergedAt of the nodes merged on or after the cutoff.
MergedPrs(nodes, cutoff) ==
    SelectSeq(nodes, LAMBDA t : t # NoTime /\ t >= cutoff)

\* list.sort(key=..., reverse=True): descending by key and stable, an element
\* going after those with a greater key and after the earlier ones with an
\* equal key.  key[i] is the key of s[i].
SortDesc(s, key) ==
    LET rank(i) == Cardinality({j \in 1..Len(s) : key[j] > key[i]})
                     + Cardinality({j \in 1..(i - 1) : key[j] = key[i]}) + 1
    IN  [r \in 1..Len(s) |-> s[CHOOSE i \in 1..Len(s) : rank(i) = r]]

\* key=lambda x: x["mergedAt"]
MergedAt(prs) == [i \in 1..Len(prs) |-> prs[i]]

\* The tests of lines 105-112 that let a repository through.
ContributionKept(repo) ==
    /\ ~repo.isPrivate
    /\ Lower(repo.owner) # Lower(GITHUB_USERNAME)
    /\ ~IsHashLike(repo.owner)

\* The record appended to contributions (lines 121-132).
ContributionRecord(rc, cutoff) ==
    LET prs == MergedPrs(rc.nodes, cutoff)
        merged == SortDesc(prs, MergedAt(prs))
    IN  [type |-> "contribution",
         name |-> rc.nameWithOwner,
         url |-> rc.url,
         pr_count |-> Len(merged),
         latest_activity |-> merged[1]]

\* The for loop of lines 101-132 over pr_repos.
Collect(pr_repos, cutoff) ==
    LET emits(rc) == ContributionKept(rc) /\ MergedPrs(rc.nodes, cutoff) # <<>>
        kept == SelectSeq(pr_repos, emits)
    IN  [i \in 1..Len(kept) |-> ContributionRecord(kept[i], cutoff)]

\* get_open_source_contributions(cutoff_iso) for the result of the GraphQL
\* request: the list returned, or the exception raised.  A result is None, or a
\* JSON object of one of these shapes: without a "data" key and empty
\* ("empty"), without a "data" key ("no_data"), with "data": null
\* ("data_null"), with "user": null below data ("user_null"), or with the
\* whole path down to pullRequestContributionsByRepository ("ok").
get_open_source_contributions(res, cutoff) ==
    IF res.none \/ res.json.shape \in {"empty", "no_data"}
    THEN [raised |-> "", ret |-> <<>>]
    ELSE IF res.json.shape \in {"data_null", "user_null"}
    THEN [raised |-> "TypeError", ret |-> <<>>]
    ELSE [raised |-> "", ret |-> Collect(res.json.pr_repos, cutoff)]

-----------------------------------------------------------------------------
(* get_all_activity and generate_activity_markdown *)

DefaultLimit == 10

\* key=lambda x: x["latest_activity"]
LatestActivity(items) == [i \in 1..Len(items) |-> items[i].latest_activity]

\* The contributions put first in the concatenation
MergeAndRank_ContribFirst(own_repos, contribs, lim) ==
    LET sorted == SortDesc(contribs \o own_repos, LatestActivity(contribs \o own_repos))
    IN  SubSeq(sorted, 1, IF lim < Len(sorted) THEN lim ELSE Len(sorted))

\* Lines 214-217: own_repos + contributions, sorted, cut to limit.
MergeAndRank(own_repos, contribs, lim) ==
    LET sorted == SortDesc(own_repos \o contribs, LatestActivity(own_repos \o contribs))
    IN  SubSeq(sorted, 1, IF lim < Len(sorted) THEN lim ELSE Len(sorted))

DigitChars == <<"0", "1", "2", "3", "4", "5", "6", "7", "8", "9">>

\* str(n) of a count
RECURSIVE Str(_)
Str(n) == IF n < 10 THEN <<DigitChars[n + 1]>>
          ELSE Str(n \div 10) \o <<DigitChars[(n % 10) + 1]>>

RECURSIVE Join(_, _)
Join(parts, sep) ==
    IF parts = <<>> THEN <<>>
    ELSE IF Len(parts) = 1 THEN parts[1]
    ELSE parts[1] \o sep \o Join(Tail(parts), sep)

Link(text, url) == <<"[">> \o text \o <<"]", "(">> \o url \o <<")">>

\* One line of the list (lines 227-241).
ActivityLine(item) ==
    IF item.type = "repo"
    THEN LET stats ==
                 (IF item.commit_count > 0
                  THEN <<Str(item.commit_count)
                           \o <<" ", "c", "o", "m", "m", "i", "t", "s">> >>
                  ELSE <<>>)
                 \o (IF item.latest_tag # NoText
                     THEN <<Link(item.latest_tag, item.latest_tag_url)>>
                     ELSE <<>>)
         IN  <<"-", " ">> \o Link(item.name, item.url)
                 \o (IF stats # <<>>
                     THEN <<" ", "(">> \o Join(stats, <<",", " ">>) \o <<")">>
                     ELSE <<>>)
    ELSE <<"-", " ">> \o Link(item.name, item.url) \o <<" ", "(">>
             \o Str(item.pr_count)
             \o <<" ", "m", "e", "r", "g", "e", "d", " ", "P", "R">>
             \o (IF item.pr_count = 1 THEN <<>> ELSE <<"s">>)
             \o <<")">>

NoRecentActivity ==
    <<"_", "N", "o", " ", "r", "e", "c", "e", "n", "t", " ",
      "a", "c", "t", "i", "v", "i", "t", "y", "_">>

generate_activity_markdown(activities) ==
    IF activities = <<>> THEN NoRecentActivity
    ELSE Join([i \in 1..Len(activities) |-> ActivityLine(activities[i])], NL)

-----------------------------------------------------------------------------
(* update_readme_section *)

start_marker(name) ==
    <<"<", "!", "-", "-", " ">> \o name
        \o <<"_", "S", "T", "A", "R", "T", " ", "-", "-", ">">>

end_marker(name) ==
    <<"<", "!", "-", "-", " ">> \o name \o <<"_", "E", "N", "D", " ", "-", "-", ">">>

\* f"{start_marker}\n{new_content}\n{end_marker}"
replacement(name, body) ==
    start_marker(name) \o NL \o body \o NL \o end_marker(name)

\* pattern.search(content, pos): (start)(.*?)(end) with re.DOTALL.  The match
\* begins at the first start marker at or after pos and, .*? being lazy, ends
\* with the first end marker after it; if no end marker follows the first
\* start marker, none follows a later one.  stop is the position after the match.
NoMatch == [found |-> FALSE]

pattern_search(text, name, pos) ==
    LET i == Find(text, start_marker(name), pos)
        j == IF i = 0 THEN 0
             ELSE Find(text, end_marker(name), i + Len(start_marker(name)))
    IN  IF i = 0 \/ j = 0 THEN NoMatch
        ELSE [found |-> TRUE, start |-> i,
              stop |-> j + Len(end_marker(name)),
              g1 |-> start_marker(name),
              g2 |-> SubSeq(text, i + Len(start_marker(name)), j - 1),
              g3 |-> end_marker(name)]

\* The value a raised re.error is held as (no text is equal to it).
ReError == <<"re.error">>

Cat(a, b) == IF a = ReError \/ b = ReError THEN ReError ELSE a \o b

\* The digits of the modelled alphabet, and chr() of the three-digit octal escapes
\* they form (none is an ASCII character).
Digits == {"2", "3"}
DigitValue == [x \in Digits |-> IF x = "2" THEN 2 ELSE 3]
OctChr(a, b, c) ==
    LET v == 64 * DigitValue[a] + 8 * DigitValue[b] + DigitValue[c]
    IN  CASE v = 146 -> "U+0092" [] v = 147 -> "U+0093"
          [] v = 154 -> "U+009A" [] v = 155 -> "U+009B"
          [] v = 210 -> "U+00D2" [] v = 211 -> "U+00D3"
          [] v = 218 -> "U+00DA" [] v = 219 -> "U+00DB"

Group(m, n) == IF n = 1 THEN m.g1 ELSE IF n = 2 THEN m.g2 ELSE m.g3

\* re's replacement template (parse_template and expand_template): pattern.sub
\* takes the replacement as a template, in which a backslash starts an escape:
\* \2 is a group of the match, a second digit makes a two-digit group number
\* (no such group: re.error) unless three octal digits make a character code,
\* \n and \\ are the newline and the backslash, a backslash before another
\* ASCII letter is a bad escape (re.error), and a backslash before anything
\* else stays with what follows it.  The text up to the next backslash is
\* literal.
RECURSIVE expand_template(_, _, _)
expand_template(t, m, k) ==
    LET bs == {i \in k..Len(t) : t[i] = "\\"}
        q == IF bs = {} THEN 0 ELSE Min(bs)
    IN
    IF q = 0 THEN SubSeq(t, k, Len(t))
    ELSE IF q = Len(t) THEN ReError
    ELSE LET c == t[q + 1]
             literal == SubSeq(t, k, q - 1)
         IN
         IF c \in Digits
         THEN IF q + 2 <= Len(t) /\ t[q + 2] \in Digits
              THEN IF q + 3 <= Len(t) /\ t[q + 3] \in Digits
                   THEN Cat(literal \o <<OctChr(c, t[q + 2], t[q + 3])>>,
                            expand_template(t, m, q + 4))
                   ELSE ReError
              ELSE Cat(literal \o Group(m, DigitValue[c]),
                       expand_template(t, m, q + 2))
         ELSE IF c = "n" THEN Cat(literal \o NL, expand_template(t, m, q + 2))
         ELSE IF c = "\\"
         THEN Cat(literal \o <<"\\">>, expand_template(t, m, q + 2))
         ELSE IF c \in AsciiLetters THEN ReError
         ELSE Cat(literal \o <<"\\", c>>, expand_template(t, m, q + 2))

\* pattern.sub with count=1: the first match only.
pattern_sub_first(repl, text, name, pos, out) ==
    LET m == pattern_search(text, name, pos)
    IN  IF ~m.found THEN Cat(out, SubSeq(text, pos, Len(text)))
        ELSE Cat(Cat(Cat(out, SubSeq(text, pos, m.start - 1)),
                     expand_template(repl, m, 1)),
                 SubSeq(text, m.stop, Len(text)))

\* pattern.sub(replacement, content): every non-overlapping match, left to
\* right, the scan resuming where the previous match stopped.  out is the text
\* built so far and pos the position the scan has reached.
RECURSIVE pattern_sub(_, _, _, _, _)
pattern_sub(repl, text, name, pos, out) ==
    LET m == pattern_search(text, name, pos)
    IN  IF ~m.found THEN Cat(out, SubSeq(text, pos, Len(text)))
        ELSE pattern_sub(repl, text, name, m.stop,
                 Cat(Cat(out, SubSeq(text, pos, m.start - 1)),
                     expand_template(repl, m, 1)))

\* A patcher for which a missing marker pair is an error.
update_readme_section_strict(text, name, body) ==
    IF pattern_search(text, name, 1).found
    THEN pattern_sub(replacement(name, body), text, name, 1, <<>>)
    ELSE ReError

\* update_readme_section(content, section_name, new_content): the text
\* returned, or ReError when pattern.sub raises.
update_readme_section(text, name, body) ==
    IF pattern_search(text, name, 1).found
    THEN pattern_sub(replacement(name, body), text, name, 1, <<>>)
    ELSE text

-----------------------------------------------------------------------------
(* A call of update_readme_section, as main makes it: content is rebound to *)
(* the text returned; a raised re.error ends the run.                        *)

CallUpdate(name, body, next) ==
    LET r == update_readme_section(content, name, body)
    IN  /\ prev' = content
        /\ section_name' = name
        /\ new_content' = body
        /\ applied' = applied + 1
        /\ IF r = ReError
           THEN /\ pc' = "raised"
                /\ exc' = "re.error"
                /\ content' = content
           ELSE /\ pc' = next
                /\ exc' = exc
                /\ content' = r

-----------------------------------------------------------------------------
(* What the environment can answer *)

\* The cutoff; the timestamps of the answers are taken around it.
Cutoffs == {MaxTime - 1}

\* A timestamp of an answer: null or missing, before the cutoff, at it, after it
Around(c) == {NoTime, c - 1, c, c + 1}

ProfileRepoName == <<"J", "i", "m", "Y", "a", "g">>

\* An entry of the repository listing; full_name only goes into request URLs.
Repo(n, f, p) == [name |-> n, fork |-> f, pushed_at |-> p, html_url |-> <<"/">> \o n]

\* A repository of the user pushed around the cutoff or never, a fork, and the
\* profile repository.
RepoSet(c) ==
    {Repo(<<"r", "1">>, FALSE, p) : p \in Around(c)}
        \cup {Repo(<<"r", "1">>, TRUE, c), Repo(ProfileRepoName, FALSE, c)}
RepoLists(c) == SeqsUpTo(RepoSet(c), MaxRepos)

CommitLists == {[i \in 1..n |-> "commit"] : n \in 0..MaxCommits}

Release(p, t) == [published_at |-> p, tag_name |-> t, html_url |-> <<"/", "R", "/">> \o t]
\* A release published at instant p is tagged v<p>; a draft (p = NoTime) v0.
ReleaseSet(c) == {Release(p, <<"v">> \o Str(p)) : p \in Around(c)}
ReleaseLists(c) == SeqsUpTo(ReleaseSet(c), MaxReleases)

TagSet == {[name |-> t] : t \in {<<"t", "1">>, <<"t", "2">>}}
TagLists == SeqsUpTo(TagSet, MaxTags)

Rep(c, n) == [i \in 1..n |-> c]

Owners == {ProfileRepoName, <<"o", "r", "g">>, Rep("a", HashLen), Rep("a", HashLen + 1),
           Rep("A", HashLen + 1), Rep("g", HashLen + 1)}

PrRepo(o, p, ns) ==
    [nameWithOwner |-> o \o <<"/", "x">>, url |-> <<"/">> \o o \o <<"/", "x">>,
     isPrivate |-> p, owner |-> o, nodes |-> ns]

\* A repository of every owner, private or public, with a pull request merged
\* at the cutoff, and a public repository of an organisation with every list
\* of nodes not merged, merged before the cutoff or merged after it.
PrRepoSet(c) ==
    {PrRepo(o, p, <<c>>) : o \in Owners, p \in BOOLEAN}
        \cup {PrRepo(<<"o", "r", "g">>, FALSE, ns) :
                 ns \in SeqsUpTo({NoTime, c - 1, c + 1}, MaxNodes)}

GqlShape(s, l) == [shape |-> s, pr_repos |-> l]

GqlBodies(c) ==
    {GqlShape(s, <<>>) : s \in {"empty", "no_data", "data_null", "user_null"}}
        \cup {GqlShape("ok", l) : l \in SeqsUpTo(PrRepoSet(c), MaxPrRepos)}

-----------------------------------------------------------------------------
(* The steps of the run *)

netVars == <<wire>>
ownVars == <<repos, idx, commit_count, releases, tags, recent_repos, hist>>
contribVars == <<result, contributions>>
rankVars == <<limit, all_activity, activity_md>>
patchVars == <<content, prev, section_name, new_content, applied>>

\* main, get_all_activity: the cutoff is now minus 60 days, the limit 10.
Start ==
    /\ pc = "start"
    /\ cutoff_iso' \in Cutoffs
    /\ limit' = DefaultLimit
    /\ pc' = "list_repos"
    /\ UNCHANGED <<exc, netVars, ownVars, contribVars, all_activity, activity_md,
                   patchVars, written>>

\* get_own_repos_activity, lines 139-145: the listing; return [] when it is
\* None or empty.  ret is where the caller goes on.
FetchRepos(lists, ret) ==
    /\ pc = "list_repos"
    /\ \E w \in WireOutcomes(lists) :
         LET r == github_api_request(w) IN
         /\ wire' = [kind |-> w.kind]
         /\ IF r.raised # ""
            THEN /\ pc' = "raised"
                 /\ exc' = r.raised
                 /\ UNCHANGED <<repos, idx, recent_repos>>
            ELSE /\ exc' = exc
                 /\ recent_repos' = <<>>
                 /\ IF Truthy(r.ret)
                    THEN /\ repos' = r.ret.json
                         /\ idx' = 1
                         /\ pc' = "repo"
                    ELSE /\ pc' = ret
                         /\ UNCHANGED <<repos, idx>>
    /\ UNCHANGED <<cutoff_iso, commit_count, releases, tags, hist, contribVars,
                   rankVars, patchVars, written>>

\* The releases and tags of the repository before are dead once the loop moves
\* on (they are assigned again before they are read): the model forgets them.
ForgetLast == releases' = PyNone /\ tags' = PyNone

\* Lines 147-156: a repository that one of the three tests skips.
SkipRepo ==
    /\ pc = "repo"
    /\ idx <= Len(repos)
    /\ ~PassesFilter(repos[idx], cutoff_iso)
    /\ idx' = idx + 1
    /\ hist' = Append(hist, [commits |-> -1, size |-> Len(recent_repos)])
    /\ ForgetLast
    /\ UNCHANGED <<pc, exc, netVars, cutoff_iso, repos, commit_count, recent_repos,
                   contribVars, rankVars, patchVars, written>>

\* Lines 159-164: the commits since the cutoff; no commit, no record.
FetchCommits(lists) ==
    /\ pc = "repo"
    /\ idx <= Len(repos)
    /\ PassesFilter(repos[idx], cutoff_iso)
    /\ \E w \in WireOutcomes(lists) :
         LET r == github_api_request(w)
             n == CommitCount(r.ret)
         IN
         /\ wire' = [kind |-> w.kind]
         /\ IF r.raised # ""
            THEN /\ pc' = "raised"
                 /\ exc' = r.raised
                 /\ UNCHANGED <<idx, commit_count, hist>>
            ELSE /\ exc' = exc
                 /\ commit_count' = n
                 /\ IF n = 0
                    THEN /\ pc' = "repo"
                         /\ idx' = idx + 1
                         /\ hist' = Append(hist, [commits |-> 0,
                                                  size |-> Len(recent_repos)])
                    ELSE /\ pc' = "releases"
                         /\ UNCHANGED <<idx, hist>>
    /\ ForgetLast
    /\ UNCHANGED <<cutoff_iso, repos, recent_repos, contribVars, rankVars, patchVars,
                   written>>

\* Lines 190-199, and the loop going to the next repository.
Emit(rels, t) ==
    /\ recent_repos' = Append(recent_repos,
                              RepoRecord(repos[idx], commit_count, rels, cutoff_iso, t))
    /\ idx' = idx + 1
    /\ hist' = Append(hist, [commits |-> commit_count, size |-> Len(recent_repos) + 1])
    /\ pc' = "repo"

\* Lines 167-183: the releases; a recent one gives the tag, and the tags are
\* not asked for.
FetchReleases(lists) ==
    /\ pc = "releases"
    /\ \E w \in WireOutcomes(lists) :
         LET r == github_api_request(w)
             t == ReleaseTag(r.ret, cutoff_iso)
         IN
         /\ wire' = [kind |-> w.kind]
         /\ IF r.raised # ""
            THEN /\ pc' = "raised"
                 /\ exc' = r.raised
                 /\ UNCHANGED <<releases, idx, recent_repos, hist>>
            ELSE /\ exc' = exc
                 /\ releases' = r.ret
                 /\ IF t.tag # NoText
                    THEN Emit(r.ret, t)
                    ELSE /\ pc' = "tags"
                         /\ UNCHANGED <<idx, recent_repos, hist>>
    /\ UNCHANGED <<cutoff_iso, repos, commit_count, tags, contribVars, rankVars,
                   patchVars, written>>

\* Lines 183-199: the tags, when no release gave a tag.
FetchTags(lists) ==
    /\ pc = "tags"
    /\ \E w \in WireOutcomes(lists) :
         LET r == github_api_request(w) IN
         /\ wire' = [kind |-> w.kind]
         /\ IF r.raised # ""
            THEN /\ pc' = "raised"
                 /\ exc' = r.raised
                 /\ UNCHANGED <<tags, idx, recent_repos, hist>>
            ELSE /\ exc' = exc
                 /\ tags' = r.ret
                 /\ Emit(releases, TagsTag(repos[idx], r.ret))
    /\ UNCHANGED <<cutoff_iso, repos, commit_count, releases, contribVars, rankVars,
                   patchVars, written>>

\* Line 201: the loop is over, return recent_repos.
OwnReturn(ret) ==
    /\ pc = "repo"
    /\ idx > Len(repos)
    /\ pc' = ret
    /\ ForgetLast
    /\ UNCHANGED <<exc, netVars, cutoff_iso, repos, idx, commit_count, recent_repos,
                   hist, contribVars, rankVars, patchVars, written>>

\* get_open_source_contributions: the GraphQL request and the loop over its
\* result.
FetchContributions(bodies, ret) ==
    /\ pc = "graphql"
    /\ \E w \in WireOutcomes(bodies) :
         LET r == github_graphql_request(w)
             c == get_open_source_contributions(r.ret, cutoff_iso)
         IN
         /\ wire' = [kind |-> w.kind]
         /\ IF r.raised # ""
            THEN /\ pc' = "raised"
                 /\ exc' = r.raised
                 /\ UNCHANGED <<result, contributions>>
            ELSE /\ result' = r.ret
                 /\ IF c.raised # ""
                    THEN /\ pc' = "raised"
                         /\ exc' = c.raised
                         /\ UNCHANGED contributions
                    ELSE /\ pc' = ret
                         /\ exc' = exc
                         /\ contributions' = c.ret
    /\ UNCHANGED <<cutoff_iso, ownVars, rankVars, patchVars, written>>

\* get_all_activity, lines 213-217, and main, line 275.
MergeRank ==
    /\ pc = "merge"
    /\ all_activity' = MergeAndRank(recent_repos, contributions, limit)
    /\ activity_md' = generate_activity_markdown(all_activity')
    /\ pc' = "read"
    /\ UNCHANGED <<exc, netVars, cutoff_iso, ownVars, contribVars, limit, patchVars,
                   written>>

\* main, lines 281-282: the README is read, or open raises.
ReadReadme(docs) ==
    /\ pc = "read"
    /\ \/ /\ content' \in docs
          /\ pc' = "patch_activity"
          /\ exc' = exc
       \/ /\ pc' = "raised"
          /\ exc' = "FileNotFoundError"
          /\ content' = content
    /\ UNCHANGED <<netVars, cutoff_iso, ownVars, contribVars, rankVars, prev,
                   section_name, new_content, applied, written>>

\* main, line 285
PatchActivity ==
    /\ pc = "patch_activity"
    /\ CallUpdate(ACTIVITY, activity_md, "patch_updated")
    /\ UNCHANGED <<netVars, cutoff_iso, ownVars, contribVars, rankVars, written>>

LastUpdated(ts) ==
    <<"_", "L", "a", "s", "t", " ", "u", "p", "d", "a", "t", "e", "d", ":", " ">>
        \o ts \o <<"_">>

\* The clock as strftime("%Y-%m-%d %H:%M UTC") prints it.
Clock ==
    {<<"2", "0", "2", "6", "-", "1", "1", "-", "0", "6", " ",
       "1", "4", ":", "2", "4", " ", "U", "T", "C">>,
     <<"2", "0", "2", "6", "-", "1", "1", "-", "0", "7", " ",
       "0", "0", ":", "0", "0", " ", "U", "T", "C">>}

\* main, lines 288-289
PatchUpdated ==
    /\ pc = "patch_updated"
    /\ \E ts \in Clock : CallUpdate(UPDATED, LastUpdated(ts), "write")
    /\ UNCHANGED <<netVars, cutoff_iso, ownVars, contribVars, rankVars, written>>

\* main, lines 292-295: the file is rewritten, or open raises.
WriteReadme ==
    /\ pc = "write"
    /\ \/ /\ written' = content
          /\ pc' = "done"
          /\ exc' = exc
       \/ /\ pc' = "raised"
          /\ exc' = "OSError"
          /\ written' = written
    /\ UNCHANGED <<netVars, cutoff_iso, ownVars, contribVars, rankVars, patchVars>>

-----------------------------------------------------------------------------
(* The run of main *)

IdleNet == wire = [kind |-> "none"] /\ exc = ""

IdleOwn ==
    /\ repos = <<>>
    /\ idx = 0
    /\ commit_count = 0
    /\ releases = PyNone
    /\ tags = PyNone
    /\ recent_repos = <<>>
    /\ hist = <<>>

IdleContrib == result = PyNone /\ contributions = <<>>

IdleRank == all_activity = <<>> /\ activity_md = <<>>

IdlePatch ==
    /\ content = <<>>
    /\ prev = <<>>
    /\ section_name = <<>>
    /\ new_content = <<>>
    /\ applied = 0
    /\ written = <<"unwritten">>

Init ==
    /\ pc = "start"
    /\ cutoff_iso = 0
    /\ limit = 0
    /\ IdleNet /\ IdleOwn /\ IdleContrib /\ IdleRank /\ IdlePatch

\* The answers the run of main is given: a listing of at most one
\* repository, at most one commit, release, tag and contribution, and a README
\* with or without each of the two marker pairs.
MainRepoLists == SeqsUpTo({Repo(<<"r", "1">>, f, MaxTime) : f \in BOOLEAN}, 1)
MainCommitLists == {<<>>, <<"commit">>}
MainReleaseLists == {<<>>, <<Release(MaxTime, <<"v", "1">>)>>}
MainTagLists == {<<>>, <<[name |-> <<"t", "1">>]>>}
MainGqlBodies ==
    {GqlShape(s, <<>>) : s \in {"no_data", "data_null", "ok"}}
        \cup {GqlShape("ok", <<PrRepo(<<"o", "r", "g">>, FALSE, <<MaxTime>>)>>)}

Section(name) == start_marker(name) \o <<"o", "l", "d">> \o end_marker(name)

MainDocs ==
    {<<"#">> \o NL \o Section(ACTIVITY) \o NL \o Section(UPDATED) \o NL,
     <<"#">> \o NL \o Section(ACTIVITY) \o NL,
     <<"#">> \o NL \o Section(UPDATED) \o NL,
     <<"#">> \o NL \o end_marker(ACTIVITY) \o start_marker(ACTIVITY) \o NL,
     <<"#">> \o NL}

Next ==
    \/ Start
    \/ FetchRepos(MainRepoLists, "graphql")
    \/ SkipRepo
    \/ FetchCommits(MainCommitLists)
    \/ FetchReleases(MainReleaseLists)
    \/ FetchTags(MainTagLists)
    \/ OwnReturn("graphql")
    \/ FetchContributions(MainGqlBodies, "merge")
    \/ MergeRank
    \/ ReadReadme(MainDocs)
    \/ PatchActivity
    \/ PatchUpdated
    \/ WriteReadme

Spec == Init /\ [][Next]_vars

-----------------------------------------------------------------------------
(* get_own_repos_activity on its own *)

InitOwn ==
    /\ pc = "list_repos"
    /\ cutoff_iso \in Cutoffs
    /\ limit = 0
    /\ IdleNet /\ IdleOwn /\ IdleContrib /\ IdleRank /\ IdlePatch

NextOwn ==
    \/ FetchRepos(RepoLists(cutoff_iso), "own_returned")
    \/ SkipRepo
    \/ FetchCommits(CommitLists)
    \/ FetchReleases(ReleaseLists(cutoff_iso))
    \/ FetchTags(TagLists)
    \/ OwnReturn("own_returned")

SpecOwn == InitOwn /\ [][NextOwn]_vars

-----------------------------------------------------------------------------
(* get_open_source_contributions on its own *)

InitContrib ==
    /\ pc = "graphql"
    /\ cutoff_iso \in Cutoffs
    /\ limit = 0
    /\ IdleNet /\ IdleOwn /\ IdleContrib /\ IdleRank /\ IdlePatch

NextContrib == FetchContributions(GqlBodies(cutoff_iso), "contrib_returned")

SpecContrib == InitContrib /\ [][NextContrib]_vars

-----------------------------------------------------------------------------
(* get_all_activity on the lists its two collectors returned *)

NoTag == [tag |-> NoText, url |-> NoText]

OwnRecords(c) ==
    {RepoRecord(Repo(n, FALSE, p), 1, PyNone, c, NoTag) :
        n \in {<<"r", "1">>, <<"r", "2">>}, p \in c..MaxTime}

ContribRecords(c) ==
    {ContributionRecord(PrRepo(<<"o", "r", "g">>, FALSE, <<p>>), c) : p \in c..MaxTime}

InitMerge ==
    /\ pc = "merge"
    /\ cutoff_iso \in Cutoffs
    /\ limit \in 0..MaxLimit
    /\ IdleNet /\ IdleRank /\ IdlePatch
    /\ repos = <<>>
    /\ idx = 0
    /\ commit_count = 0
    /\ releases = PyNone
    /\ tags = PyNone
    /\ hist = <<>>
    /\ result = PyNone
    /\ recent_repos \in SeqsUpTo(OwnRecords(cutoff_iso), MaxOwn)
    /\ contributions \in SeqsUpTo(ContribRecords(cutoff_iso), MaxContribs)

NextMerge == MergeRank

SpecMerge == InitMerge /\ [][NextMerge]_vars

-----------------------------------------------------------------------------
(* update_readme_section on its own: a document, a section and a body, and  *)
(* the patcher applied to the document and then to its own output.          *)

DocPieces == {<<"x">>, start_marker(ACTIVITY), end_marker(ACTIVITY)}
Docs == {Concat(ps) : ps \in SeqsUpTo(DocPieces, MaxDocParts)}

BodyPieces == {<<"x">>, <<"\\">>, <<"2">>, end_marker(ACTIVITY)}
Bodies == {Concat(ps) : ps \in SeqsUpTo(BodyPieces, MaxBodyParts)}

InitPatch ==
    /\ pc = "patch"
    /\ cutoff_iso = 0
    /\ limit = 0
    /\ IdleNet /\ IdleOwn /\ IdleContrib /\ IdleRank
    /\ content \in Docs
    /\ prev = <<>>
    /\ section_name = ACTIVITY
    /\ new_content \in Bodies
    /\ applied = 0
    /\ written = <<"unwritten">>

\* The first call
PatchOnce ==
    /\ pc = "patch"
    /\ applied = 0
    /\ CallUpdate(section_name, new_content, "patch")
    /\ UNCHANGED <<netVars, cutoff_iso, ownVars, contribVars, rankVars, written>>

\* The second call, on what the first returned
PatchAgain ==
    /\ pc = "patch"
    /\ applied = 1
    /\ CallUpdate(section_name, new_content, "patch")
    /\ UNCHANGED <<netVars, cutoff_iso, ownVars, contribVars, rankVars, written>>

NextPatch == PatchOnce \/ PatchAgain

SpecPatch == InitPatch /\ [][NextPatch]_vars

-----------------------------------------------------------------------------
(* Claims about update_readme_section *)

HasPair(doc, name) == pattern_search(doc, name, 1).found

ExactlyOnePair(doc, name) ==
    /\ Cardinality(Occurrences(doc, start_marker(name))) = 1
    /\ Cardinality(Occurrences(doc, end_marker(name))) = 1
    /\ Find(doc, end_marker(name), 1) > Find(doc, start_marker(name), 1)

\* The document C1 describes: the text before the start marker, the start
\* marker, a newline, the body, a newline, the end marker, the text after the
\* end marker.
Spliced(doc, name, body) ==
    LET s == Find(doc, start_marker(name), 1)
        e == Find(doc, end_marker(name), 1)
    IN  SubSeq(doc, 1, s - 1) \o start_marker(name) \o NL \o body \o NL
            \o end_marker(name)
            \o SubSeq(doc, e + Len(end_marker(name)), Len(doc))

\* C1: for a document with exactly one start marker followed later by exactly
\* one end marker, and for every body, the call returns the text before the
\* start marker, the start marker, a newline, the body exactly as given, a
\* newline, the end marker and the text after the end marker.
C1_BodyAsGiven ==
    (applied = 1 /\ ExactlyOnePair(prev, section_name))
        => /\ pc # "raised"
           /\ content = Spliced(prev, section_name, new_content)

\* The text the call writes for one match
Written(m, name, body) == expand_template(replacement(name, body), m, 1)

SeveralPairs(doc, name) ==
    LET m == pattern_search(doc, name, 1)
    IN  m.found /\ pattern_search(doc, name, m.stop).found

\* The first pair rewritten and everything after its end marker left as it was
FirstPairOnly(doc, name, body) ==
    LET m == pattern_search(doc, name, 1)
    IN  SubSeq(doc, 1, m.start - 1) \o Written(m, name, body)
            \o SubSeq(doc, m.stop, Len(doc))

\* Every pair rewritten: the first one, then the same in the text that follows
\* its end marker.
RECURSIVE EveryPair(_, _, _)
EveryPair(doc, name, body) ==
    LET m == pattern_search(doc, name, 1)
    IN  IF ~m.found THEN doc
        ELSE SubSeq(doc, 1, m.start - 1) \o Written(m, name, body)
                 \o EveryPair(SubSeq(doc, m.stop, Len(doc)), name, body)

\* C2, as claimed: with several marker pairs of the section in the document,
\* only the content between the first start marker and the first end marker
\* after it is replaced; every later pair and its content stay as they were.
C2_FirstPairOnly ==
    (applied = 1 /\ pc # "raised" /\ SeveralPairs(prev, section_name))
        => content = FirstPairOnly(prev, section_name, new_content)

\* C2, amended: with several marker pairs of the section in the document, every
\* pair is rewritten, left to right, a pair being a start marker and the first
\* end marker after it and the scan resuming after that end marker; only the
\* text outside the pairs stays as it was.
C2_EveryPair ==
    (applied = 1 /\ pc # "raised" /\ SeveralPairs(prev, section_name))
        => content = EveryPair(prev, section_name, new_content)

\* A call that returned, on a document with several pairs, something else than
\* the document with its first pair alone rewritten.
C2_Witness ==
    /\ applied = 1
    /\ pc # "raised"
    /\ SeveralPairs(prev, section_name)
    /\ content # FirstPairOnly(prev, section_name, new_content)

\* C8: for a document with the section's marker pair and every body, the call
\* applied to its own output with the same section and body returns that
\* output again.
C8_Idempotent == (applied = 2 /\ pc # "raised") => content = prev

-----------------------------------------------------------------------------
(* Claims about main *)

LastUpdatedStamps == {LastUpdated(ts) : ts \in Clock}

\* C3: a call on a document without the section's start marker followed by its
\* end marker returns the document as it is and raises nothing; after such a
\* call for ACTIVITY main goes on to the call for UPDATED, which rewrites the
\* UPDATED pair, and after such a call for UPDATED to the write; what is
\* written is content.
C3_MissingPairNotFatal ==
    /\ (applied >= 1 /\ ~HasPair(prev, section_name) /\ exc = "re.error") => FALSE
    /\ (applied = 1 /\ ~HasPair(prev, ACTIVITY))
           => /\ section_name = ACTIVITY
              /\ pc = "patch_updated"
              /\ content = prev
              /\ ENABLED PatchUpdated
    /\ (applied = 2 /\ ~HasPair(prev, UPDATED))
           => /\ section_name = UPDATED
              /\ content = prev
              /\ pc \in {"write", "done", "raised"}
              /\ pc = "raised" => exc = "OSError"
    /\ (applied = 2 /\ ExactlyOnePair(prev, UPDATED))
           => /\ new_content \in LastUpdatedStamps
              /\ content = Spliced(prev, UPDATED, new_content)
    /\ pc = "write" => ENABLED WriteReadme
    /\ pc = "done" => written = content

\* A finished run on a README without the ACTIVITY pair: the UPDATED pair was
\* rewritten and the file written.
C3_Witness ==
    /\ pc = "done"
    /\ ~HasPair(written, ACTIVITY)
    /\ \E s \in LastUpdatedStamps : Contains(written, s)

-----------------------------------------------------------------------------
(* Claims about the API client *)

\* C4: no failure of a request (DNS, connection, timeout at any stage of the
\* request, non-2xx status) leaves github_api_request or
\* github_graphql_request as an exception: None is returned and the caller
\* goes on.
C4_NeverRaises ==
    ~(pc = "raised" /\ exc \in {"HTTPError", "URLError", "TimeoutError"})

-----------------------------------------------------------------------------
(* Claims about get_open_source_contributions *)

Malformed(res) == res.none \/ res.json.shape # "ok"

\* C5: for a result of the GraphQL request that is absent, lacks the data key
\* or lacks the keys expected below it (data null, user null), the collector
\* raises nothing and returns the empty list.
C5_MalformedGivesEmpty ==
    /\ ~(pc = "raised" /\ exc = "TypeError")
    /\ (pc = "contrib_returned" /\ Malformed(result)) => contributions = <<>>

LowerHex == {"0", "1", "2", "3", "4", "5", "6", "7", "8", "9",
             "a", "b", "c", "d", "e", "f"}
UpperHex == {"A", "B", "C", "D", "E", "F"}

\* The repositories of the claim: not private, the owner not the configured
\* user (whatever the case), the owner not hash-like, that is not longer than
\* 30 characters all in hex, and a node merged on or after the cutoff.
Claimed(rc, cutoff, hex) ==
    /\ ~rc.isPrivate
    /\ Lower(rc.owner) # Lower(GITHUB_USERNAME)
    /\ ~(Len(rc.owner) > HashLen /\ \A i \in 1..Len(rc.owner) : rc.owner[i] \in hex)
    /\ \E i \in 1..Len(rc.nodes) : rc.nodes[i] # NoTime /\ rc.nodes[i] >= cutoff

EmittedNames == [i \in 1..Len(contributions) |-> contributions[i].name]

ClaimedNames(hex) ==
    LET kept == SelectSeq(result.json.pr_repos,
                          LAMBDA rc : Claimed(rc, cutoff_iso, hex))
    IN  [i \in 1..Len(kept) |-> kept[i].nameWithOwner]

WellFormedReturned ==
    pc = "contrib_returned" /\ ~result.none /\ result.json.shape = "ok"

\* C9, as claimed: a record is emitted for the repositories of a well-formed
\* response that are not private, not the configured user's, not hash-like and
\* have a node merged on or after the cutoff, and for no other; an owner login
\* is hash-like when it is longer than 30 characters and each of them is a
\* lowercase hexadecimal digit.
C9_LowercaseHex == WellFormedReturned => EmittedNames = ClaimedNames(LowerHex)

\* C9, amended: the same, an owner login being hash-like when it is longer
\* than 30 characters and each of them is a hexadecimal digit in either case
\* (0-9, a-f, A-F).
C9_EitherCaseHex ==
    WellFormedReturned => EmittedNames = ClaimedNames(LowerHex \cup UpperHex)

\* A public repository of another owner with a merged pull request in the
\* window, whose owner login is 31 uppercase hex digits: nothing is emitted.
C9_Witness ==
    /\ WellFormedReturned
    /\ Len(result.json.pr_repos) = 1
    /\ result.json.pr_repos[1].owner = Rep("A", HashLen + 1)
    /\ ~result.json.pr_repos[1].isPrivate
    /\ result.json.pr_repos[1].nodes = <<cutoff_iso>>
    /\ contributions = <<>>

-----------------------------------------------------------------------------
(* Claims about get_own_repos_activity *)

\* Whether the repository at position i of the listing got a record
Emitted(i) == hist[i].size = (IF i = 1 THEN 0 ELSE hist[i - 1].size) + 1

\* C6: a listed repository gets exactly one record if and only if it is not a
\* fork, its name is not the configured username (whatever the case), its
\* last push is present and not before the cutoff, and its commits fetch
\* returned a commit; no failed fetch for a repository aborts the collector.
C6_RecordIffActive ==
    /\ ~(pc = "raised" /\ idx >= 1)
    /\ pc = "own_returned" =>
         /\ Len(hist) = Len(repos)
         /\ Len(recent_repos) = (IF hist = <<>> THEN 0 ELSE hist[Len(hist)].size)
         /\ \A i \in 1..Len(repos) :
              Emitted(i) <=>
                  /\ ~repos[i].fork
                  /\ Lower(repos[i].name) # Lower(GITHUB_USERNAME)
                  /\ repos[i].pushed_at # NoTime
                  /\ repos[i].pushed_at >= cutoff_iso
                  /\ hist[i].commits >= 1

\* The loop has just appended a record for the repository at idx - 1.
JustEmitted ==
    /\ pc = "repo"
    /\ hist # <<>>
    /\ idx = Len(hist) + 1
    /\ Emitted(Len(hist))

Qualifying(rels, cutoff) ==
    IF rels.none THEN <<>>
    ELSE SelectSeq(rels.json, LAMBDA rel : rel.published_at # NoTime
                                            /\ rel.published_at >= cutoff)

\* C10: the tag of an emitted record.  With a release published on or after
\* the cutoff among those returned, it is the tag name and URL of the first of
\* them in the returned order, and the tags are not fetched; otherwise, with a
\* tag returned, the first tag's name and <html_url>/releases/tag/<name>;
\* otherwise the record has no tag.
C10_TagSelection ==
    JustEmitted =>
        LET rec == recent_repos[Len(recent_repos)]
            repo == repos[idx - 1]
            q == Qualifying(releases, cutoff_iso)
        IN  IF q # <<>>
            THEN /\ rec.latest_tag = q[1].tag_name
                 /\ rec.latest_tag_url = q[1].html_url
                 /\ tags = PyNone
            ELSE IF ~tags.none /\ tags.json # <<>>
            THEN /\ rec.latest_tag = tags.json[1].name
                 /\ rec.latest_tag_url
                        = repo.html_url \o TagPath \o tags.json[1].name
            ELSE /\ rec.latest_tag = NoText
                 /\ rec.latest_tag_url = NoText

\* A record whose tag is that of the second release returned, the first one
\* having been published before the cutoff.
C10_Witness ==
    /\ JustEmitted
    /\ ~releases.none
    /\ Len(releases.json) = 2
    /\ releases.json[1].published_at # NoTime
    /\ releases.json[1].published_at < cutoff_iso
    /\ releases.json[1].tag_name # releases.json[2].tag_name
    /\ recent_repos[Len(recent_repos)].latest_tag = releases.json[2].tag_name

-----------------------------------------------------------------------------
(* Claims about get_all_activity *)

Merged == recent_repos \o contributions

At(s, t) == SelectSeq(s, LAMBDA item : item.latest_activity = t)

Stamps(s) == {s[i].latest_activity : i \in 1..Len(s)}

\* C7: the list returned is the owned-repository records followed by the
\* contribution records, sorted by latest_activity descending and cut to the
\* first limit entries: it has limit records, or all if there are fewer; it is
\* in descending order; no record left out is later than one kept; and the
\* records of one timestamp are the first ones of that timestamp in the
\* concatenation, in its order.
C7_RankedStable ==
    pc = "read" =>
        /\ Len(all_activity) = (IF limit < Len(Merged) THEN limit ELSE Len(Merged))
        /\ \A k \in 1..Len(all_activity) : \A l \in k..Len(all_activity) :
               all_activity[k].latest_activity >= all_activity[l].latest_activity
        /\ \A t \in Stamps(Merged) :
               /\ Len(At(all_activity, t)) <= Len(At(Merged, t))
               /\ At(all_activity, t) = SubSeq(At(Merged, t), 1, Len(At(all_activity, t)))
               /\ Len(At(all_activity, t)) < Len(At(Merged, t))
                      => \A k \in 1..Len(all_activity) :
                             all_activity[k].latest_activity >= t
        /\ Stamps(all_activity) \subseteq Stamps(Merged)

\* A merge that moved a contribution before an owned repository, kept an owned
\* repository before a contribution of the same timestamp, and left a record
\* out.
C7_Witness ==
    /\ pc = "read"
    /\ Len(all_activity) < Len(Merged)
    /\ \E k \in 1..Len(all_activity) : \E l \in (k + 1)..Len(all_activity) :
          /\ all_activity[k].type = "contribution"
          /\ all_activity[l].type = "repo"
    /\ \E k \in 1..Len(all_activity) : \E l \in (k + 1)..Len(all_activity) :
          /\ all_activity[k].type = "repo"
          /\ all_activity[l].type = "contribution"
          /\ all_activity[k].latest_activity = all_activity[l].latest_activity

====
